---------------------------- MODULE Spec2Model ----------------------------
(***************************************************************************)
(* Session state machine and merge resolution of the planet merge game.   *)
(* Source: src/unnamed/part_000 (the variant with the black hole and the   *)
(* resettable bag); src/src/main.ts is the older variant of the same file. *)
(*                                                                         *)
(* The physics engine (matter-js) is an external collaborator.  One engine *)
(* update integrates the bodies, fires 'collisionStart' with the pairs     *)
(* that began colliding (only when there are some) and then fires          *)
(* 'afterUpdate'.  The two handlers are the actions CollisionStart and     *)
(* AfterUpdate; phase says whether an update is in progress, and nothing   *)
(* else runs inside one (the host is single threaded).  Positions belong   *)
(* to the engine: a body keeps the position it was created with until the  *)
(* next update integrates it, and from then on a handler that reads the    *)
(* position gets what the engine computed, an input of the handler.        *)
(***************************************************************************)
EXTENDS Integers, Sequences, FiniteSets, TLC

(***************************************************************************)
(* Bounds of the model.                                                    *)
(***************************************************************************)
\* Pieces on the board above which the model follows no further drop.
MaxBodies == 3
\* Collision pairs delivered in one step.
MaxPairs == 2
\* Drops the model follows in one run, over all its sessions.
MaxDrops == 3
\* The clock: performance.now() advances by TickMs, MaxTicks times at most.
TickMs == 1500
MaxTicks == 3

(***************************************************************************)
(* Program constants.                                                      *)
(***************************************************************************)
\* DEADLINE_RATIO = 0.18, kept as a percentage to stay in the integers.
DEADLINE_RATIO_PCT == 18
DEADLINE_THRESHOLD_MS == 1500
DROP_COOLDOWN_MS == 400
BLACK_HOLE_BONUS == 5000
\* The height a dropped piece is created at, and the exclusion band of the
\* deadline rule below it.
SpawnY == 50
SpawnExclusionY == 120
\* The clamp margin of updateDropX.
DropMargin == 5
\* The highest level: PLANETS has entries 1..11.
MaxLevel == 11
\* container.clientWidth and clientHeight, read by init.
BoardWidth == 400
BoardHeight == 1000

Levels == 1..MaxLevel

\* PLANETS[level].radius
PlanetRadius == <<21, 26, 31, 39, 48, 59, 70, 84, 99, 118, 140>>

\* PLANETS[level].score
PlanetScore == <<10, 20, 40, 80, 160, 320, 640, 1280, 2560, 5120, 10240>>

NEXT_CANDIDATES == <<1, 2, 3, 4, 5>>

\* NEXT_WEIGHTS, indexed by level (0 for a level that is no candidate).
NEXT_WEIGHTS == [l \in Levels |-> IF l <= 5 THEN <<6, 6, 5, 4, 3>>[l] ELSE 0]

\* null (lastItem, deadLineViolatedStartTime); no level and no time is -1.
Null == -1


Max(a, b) == IF a >= b THEN a ELSE b

Min(a, b) == IF a <= b THEN a ELSE b

(***************************************************************************)
(* The store keeps strings.  A string is a sequence of characters; the     *)
(* item 'hiScore' is written with hiScore.toString() and read with         *)
(* parseInt(localStorage.getItem('hiScore') || '0').  parseInt reads the   *)
(* longest prefix of decimal digits and gives NaN when there is none (the  *)
(* strings of the model carry no sign, blank or radix prefix).  NaN is     *)
(* kept as a number no score can be; every comparison with it is false.    *)
(***************************************************************************)
NaN == -2

\* getItem of a key that is not in the store: null.
NoItem == <<"null">>

Digits == <<"0", "1", "2", "3", "4", "5", "6", "7", "8", "9">>

IsDigit(c) == \E d \in 1..10 : Digits[d] = c

DigitValue(c) == (CHOOSE d \in 1..10 : Digits[d] = c) - 1

\* n.toString() of an integer n >= 0
RECURSIVE NumberToString(_)
NumberToString(n) ==
  IF n < 10 THEN <<Digits[n + 1]>>
  ELSE Append(NumberToString(n \div 10), Digits[(n % 10) + 1])

RECURSIVE ParseDigits(_, _)
ParseDigits(str, acc) ==
  IF str = <<>> \/ ~IsDigit(Head(str)) THEN acc
  ELSE ParseDigits(Tail(str), 10 * acc + DigitValue(Head(str)))

\* parseInt(str)
ParseInt(str) ==
  IF str = <<>> \/ ~IsDigit(Head(str)) THEN NaN ELSE ParseDigits(str, 0)

\* item || '0': null and the empty string are falsy.
OrZero(item) == IF item = NoItem \/ item = <<>> THEN <<"0">> ELSE item

\* parseInt(localStorage.getItem('hiScore') || '0')
LoadHiScore(item) == ParseInt(OrZero(item))

\* a > b of two numbers
Greater(a, b) == a # NaN /\ b # NaN /\ a > b

(***************************************************************************)
(* PlanetBag.  items is an array that refill fills with NEXT_WEIGHTS[lv]   *)
(* copies of each candidate and then shuffles (Fisher-Yates over           *)
(* Math.random, so every order can come out).  pull reads only items[0]    *)
(* and items[1], so the model keeps the order undetermined until a         *)
(* position is read: front is items[0] once it has been read and left in   *)
(* place (Null otherwise) and rest counts, by level, the entries whose     *)
(* place in the order nothing has read yet.  Reading a position draws one  *)
(* of them; deck is the set of levels the draw ranges over.                *)
(***************************************************************************)
AllCandidates == {NEXT_CANDIDATES[i] : i \in 1..Len(NEXT_CANDIDATES)}

RECURSIVE SumTo(_, _)
SumTo(f, n) == IF n = 0 THEN 0 ELSE f[n] + SumTo(f, n - 1)

\* this.items.length
BagLength(b) == (IF b.front # Null THEN 1 ELSE 0) + SumTo(b.rest, MaxLevel)

\* A splice that removes nothing.
TakeNone(rest, l) == rest

\* this.items.splice(index, 1): one entry of level l leaves the array.
Take(rest, l) == [rest EXCEPT ![l] = @ - 1]

\* refill(): the weighted multiset, shuffled.
Refill(b) == [b EXCEPT !.front = Null, !.rest = NEXT_WEIGHTS]

\* new PlanetBag()
NewBag == Refill([front |-> Null, rest |-> [l \in Levels |-> 0], lastItem |-> Null])

\* reset()
BagReset(b) == Refill([b EXCEPT !.lastItem = Null])

\* The entries a read of a not yet read position can find.
Unread(rest, deck) == {l \in deck : rest[l] > 0}

\* A pull that returns a level that is no candidate.
PullAlwaysSix(b, deck) == {[val |-> 6, bag |-> b]}

\* pull(): the set of [val, bag] it can end with, over the shuffle's outcomes.
Pull(b, deck) ==
  LET b1 == IF BagLength(b) = 0 THEN Refill(b) ELSE b
      fronts == IF b1.front # Null THEN {b1.front} ELSE Unread(b1.rest, deck)
  IN UNION {
       LET after0 == IF b1.front # Null THEN b1.rest ELSE Take(b1.rest, f)
       IN IF BagLength(b1) > 1 /\ f = b1.lastItem
          THEN \* index = 1: items[0] stays in front, items[1] is spliced out
               {[val |-> v,
                 bag |-> [front |-> f, rest |-> Take(after0, v), lastItem |-> v]]
                  : v \in Unread(after0, deck)}
          ELSE \* index = 0
               {[val |-> f,
                 bag |-> [front |-> Null, rest |-> after0, lastItem |-> f]]}
       : f \in fronts}

\* The pulls counted by level since the last refill, after a pull of bag b
\* returned v: a pull that finds the bag empty refills it first.
NonePulled == [l \in Levels |-> 0]

PulledAfter(b, counts, v) ==
  [(IF BagLength(b) = 0 THEN NonePulled ELSE counts) EXCEPT ![v] = @ + 1]

(***************************************************************************)
(* Bodies.  A body is a record of its planet level and its position; an    *)
(* id is the engine's body id.  The engine numbers bodies with a counter;  *)
(* the model gives a new body the least id no body of the current step     *)
(* has, which keeps ids distinct wherever the program compares them (the   *)
(* lock set lives for one step).  Wall stands for the static bodies.       *)
(***************************************************************************)
Wall == 0

\* The position of a body the engine has integrated: read from the engine.
PhysicsOwned == [x |-> -1, y |-> -1]

\* Positions the engine reports for an integrated body.
Positions == {[x |-> 100, y |-> 130], [x |-> 300, y |-> 500]}

\* Pointer x coordinates relative to the container.
XInputs == {0, 400}

\* Levels the shuffle puts at the positions a session of the model reads.
SessionDeck == {1, 2}

\* hiScore values a previous run left in the store.
StoredHiScores == {0, 30}

\* The item 'hiScore' as a previous run wrote it.
ValidItems == {NumberToString(n) : n \in StoredHiScores}

\* The item 'hiScore' missing, empty, or not a number.
BrokenItems == {NoItem, <<>>, <<"a", "b", "c">>}

FreshId(used) == CHOOSE i \in 1..(Cardinality(used) + 1) :
                    i \notin used /\ \A j \in 1..(i - 1) : j \in used

\* Engine.update integrates every body: its position is the engine's from here.
Integrate(bs) == [i \in DOMAIN bs |-> [bs[i] EXCEPT !.pos = PhysicsOwned]]

\* body.position as a handler of this update reads it.
PositionOf(bs, posOf, i) ==
  IF bs[i].pos = PhysicsOwned THEN posOf[i] ELSE bs[i].pos

(***************************************************************************)
(* The state the collision handler works on, as one record: world is the   *)
(* set of ids in engine.world, bodies the body objects that exist (a body  *)
(* removed from the world is still an object while event.pairs refers to   *)
(* it), locked is mergeLockedBodies, store is localStorage, notified       *)
(* counts per level the discovery notifications of the session (setItem    *)
(* followed by updateEvolutionUI), log lists the pairs of this step that   *)
(* the handler acted on.  The impact sound of a boundary contact and the   *)
(* visual effects are presentation and are left out.                       *)
(***************************************************************************)
NotifyCap == 2

\* Discover that records nothing.
DiscoverNever(s, lv) == s

\* Discover without the has() test: every appearance notifies.
DiscoverAlways(s, lv) ==
  [s EXCEPT !.discovered = @ \cup {lv},
            !.store.discoveredLevels = s.discovered \cup {lv},
            !.notified[lv] = Min(@ + 1, NotifyCap)]

\* if (!discoveredLevels.has(lv)) { add; setItem; updateEvolutionUI }
Discover(s, lv) ==
  IF lv \notin s.discovered
  THEN [s EXCEPT !.discovered = @ \cup {lv},
                 !.store.discoveredLevels = s.discovered \cup {lv},
                 !.notified[lv] = Min(@ + 1, NotifyCap)]
  ELSE s

\* AddScore that forgets to raise hiScore.
AddScoreNoHi(s, pts) == [s EXCEPT !.score = @ + pts]

\* AddScore that copies score into hiScore without comparing.
AddScoreCopyHi(s, pts) ==
  [s EXCEPT !.score = @ + pts, !.hiScore = s.score + pts,
            !.store.hiScore = NumberToString(s.score + pts)]

\* AddScore that raises hiScore without writing it to the store.
AddScoreNoSetItem(s, pts) ==
  LET sc == s.score + pts
  IN IF Greater(sc, s.hiScore)
     THEN [s EXCEPT !.score = sc, !.hiScore = sc]
     ELSE [s EXCEPT !.score = sc]

\* score += pts; if (score > hiScore) { hiScore = score; setItem }
AddScore(s, pts) ==
  LET sc == s.score + pts
  IN IF Greater(sc, s.hiScore)
     THEN [s EXCEPT !.score = sc, !.hiScore = sc, !.store.hiScore = NumberToString(sc)]
     ELSE [s EXCEPT !.score = sc]

\* Midpoint that takes bodyA's position.
MidpointAtA(pa, pb) == pa

Midpoint(pa, pb) == [x |-> (pa.x + pb.x) \div 2, y |-> (pa.y + pb.y) \div 2]

\* The new level of a merge: lv + 1.
MergedLevel(lv) == lv + 1

handleMerge(s, a, b, posOf) ==
  LET lv == s.bodies[a].level
      newLv == MergedLevel(lv)
      at == Midpoint(posOf[a], posOf[b])
      n == FreshId(DOMAIN s.bodies)
      removed == [s EXCEPT !.world = (@ \ {a, b}) \cup {n},
                           !.bodies = [i \in DOMAIN @ \cup {n} |->
                                         IF i = n THEN [level |-> newLv, pos |-> at]
                                         ELSE @[i]]]
      scored == AddScore(Discover(removed, newLv), PlanetScore[newLv])
  IN [scored EXCEPT !.log = Append(@,
        [kind |-> "merge", a |-> a, b |-> b, posA |-> posOf[a], posB |-> posOf[b],
         live |-> {a, b} \subseteq s.world, consumed |-> {a, b}, born |-> n,
         gain |-> scored.score - s.score])]

\* triggerBlackHole that removes the colliding pair only.
triggerBlackHoleOnlyPair(s, a, b, posOf) ==
  LET scored == AddScore([s EXCEPT !.world = @ \ {a, b}], BLACK_HOLE_BONUS)
  IN [scored EXCEPT !.log = Append(@,
        [kind |-> "blackhole", a |-> a, b |-> b, posA |-> posOf[a], posB |-> posOf[b],
         live |-> {a, b} \subseteq s.world, consumed |-> {a, b}, born |-> 0,
         gain |-> scored.score - s.score])]

triggerBlackHole(s, a, b, posOf) ==
  LET scored == AddScore([s EXCEPT !.world = {}], BLACK_HOLE_BONUS)
  IN [scored EXCEPT !.log = Append(@,
        [kind |-> "blackhole", a |-> a, b |-> b, posA |-> posOf[a], posB |-> posOf[b],
         live |-> {a, b} \subseteq s.world, consumed |-> s.world, born |-> 0,
         gain |-> scored.score - s.score])]

Unlocked(s, a, b) == a \notin s.locked /\ b \notin s.locked

Lock(s, a, b) == [s EXCEPT !.locked = @ \cup {a, b}]

\* The handler locking the two planets of a pair of different levels.
ProcessPairLocksUnequal(s, pair, posOf) ==
  LET a == pair[1]
      b == pair[2]
  IN IF a = Wall \/ b = Wall
     THEN s
     ELSE IF s.bodies[a].level = MaxLevel /\ s.bodies[b].level = MaxLevel
     THEN IF Unlocked(s, a, b) THEN triggerBlackHole(Lock(s, a, b), a, b, posOf) ELSE s
     ELSE IF s.bodies[a].level = s.bodies[b].level /\ s.bodies[a].level < MaxLevel
     THEN IF Unlocked(s, a, b) THEN handleMerge(Lock(s, a, b), a, b, posOf) ELSE s
     ELSE Lock(s, a, b)

\* The body of pairs.forEach in the collisionStart handler.
ProcessPair(s, pair, posOf) ==
  LET a == pair[1]
      b == pair[2]
  IN IF a = Wall \/ b = Wall
     THEN s
     ELSE IF s.bodies[a].level = MaxLevel /\ s.bodies[b].level = MaxLevel
     THEN IF Unlocked(s, a, b) THEN triggerBlackHole(Lock(s, a, b), a, b, posOf) ELSE s
     ELSE IF s.bodies[a].level = s.bodies[b].level /\ s.bodies[a].level < MaxLevel
     THEN IF Unlocked(s, a, b) THEN handleMerge(Lock(s, a, b), a, b, posOf) ELSE s
     ELSE s

RECURSIVE ProcessPairs(_, _, _)
ProcessPairs(s, pairs, posOf) ==
  IF pairs = <<>> THEN s
  ELSE ProcessPairs(ProcessPair(s, Head(pairs), posOf), Tail(pairs), posOf)

\* The pairs the engine can report among the bodies of the world and the walls.
PairsOf(ids) == {<<a, b>> : a \in ids \cup {Wall}, b \in ids} \ {<<a, a>> : a \in ids}

UnorderedPairsOf(ids) == {p \in PairsOf(ids) : p[1] < p[2]}

RECURSIVE ListsUpTo(_, _)
ListsUpTo(S, n) ==
  IF n = 0 THEN {<<>>}
  ELSE LET shorter == ListsUpTo(S, n - 1)
       IN shorter \cup {Append(l, e) : l \in {k \in shorter : Len(k) = n - 1}, e \in S}

PairLists(ids) == ListsUpTo(UnorderedPairsOf(ids), MaxPairs) \ {<<>>}

\* The bodies whose position the handler can read: those of a pair of two
\* planets of one level.
ReadIds(pairs, bs) ==
  UNION {{pairs[k][1], pairs[k][2]} :
           k \in {j \in DOMAIN pairs :
                    /\ pairs[j][1] # Wall
                    /\ bs[pairs[j][1]].level = bs[pairs[j][2]].level}}

(***************************************************************************)
(* checkDeadline's scan and updateDropX's clamp.                           *)
(***************************************************************************)
\* b.position.y - b.circleRadius < h * DEADLINE_RATIO && b.position.y > 120
Violates(level, pos) ==
  /\ 100 * (pos.y - PlanetRadius[level]) < DEADLINE_RATIO_PCT * BoardHeight
  /\ pos.y > SpawnExclusionY

AnyViolation(w, bs, posOf) ==
  \E i \in w : Violates(bs[i].level, PositionOf(bs, posOf, i))

\* !deadLineViolatedStartTime: null and 0 are both falsy.
Falsy(t) == t = Null \/ t = 0

Clamp(level, x) ==
  Max(PlanetRadius[level] + DropMargin,
      Min(BoardWidth - PlanetRadius[level] - DropMargin, x))

(***************************************************************************)
(* State.                                                                  *)
(***************************************************************************)
VARIABLES
  score, hiScore, discoveredLevels, currentLevel, nextLevel, dropX,
  isCoolingDown, isGameOver, deadLineViolatedStartTime, mergeLockedBodies,
  planetBag,     \* the PlanetBag: [front, rest, lastItem]
  world,         \* ids of the planets in engine.world
  bodies,        \* id -> [level, pos] of the body objects that exist
  localStorage,  \* [hiScore, discoveredLevels] as last written
  timers,        \* due times of the pending cooldown timeouts, oldest first
  now,           \* performance.now()
  phase,         \* "idle", or "inStep" between collisionStart and afterUpdate
  stepLog,       \* the pairs the collision handler acted on in this step
  violation,     \* checkDeadline's local of the same name, as last computed
  notified,      \* level -> discovery notifications in this session
  dropCount,     \* drops so far
  lastDropTime,  \* performance.now() at the latest drop, Null before the first
  pulled,        \* level -> pulls that returned it since the bag was last refilled
  pullLog,       \* the levels init, resetGame and dropPlanet pulled this session
  dropLog        \* the levels of the pieces dropped this session

coreVars == <<score, hiScore, discoveredLevels, mergeLockedBodies, world, bodies,
              localStorage, notified, stepLog>>

pieceVars == <<currentLevel, nextLevel, planetBag, dropCount, lastDropTime,
               pulled, pullLog, dropLog>>

vars == <<score, hiScore, discoveredLevels, currentLevel, nextLevel, dropX,
          isCoolingDown, isGameOver, deadLineViolatedStartTime,
          mergeLockedBodies, planetBag, world, bodies, localStorage, timers,
          now, phase, stepLog, violation, notified, dropCount, lastDropTime,
          pulled, pullLog, dropLog>>

Core ==
  [world |-> world, bodies |-> bodies, locked |-> mergeLockedBodies,
   score |-> score, hiScore |-> hiScore, discovered |-> discoveredLevels,
   store |-> localStorage, notified |-> notified, log |-> stepLog]

SetCore(s) ==
  /\ world' = s.world
  /\ bodies' = s.bodies
  /\ mergeLockedBodies' = s.locked
  /\ score' = s.score
  /\ hiScore' = s.hiScore
  /\ discoveredLevels' = s.discovered
  /\ localStorage' = s.store
  /\ notified' = s.notified
  /\ stepLog' = s.log

(***************************************************************************)
(* Initial states: the state init() leaves, and states of a session under  *)
(* way, whose boards hold the high levels that only long play reaches.     *)
(* A session under way has discovered the levels up to its highest piece   *)
(* and has scored what merging its pieces up from level 5 pays.            *)
(***************************************************************************)
InitBoards == {<<>>, <<11, 11>>, <<11, 11, 3, 3>>, <<10, 10, 11>>}

RECURSIVE MergeCost(_)
MergeCost(l) == IF l <= 5 THEN 0 ELSE PlanetScore[l] + 2 * MergeCost(l - 1)

RECURSIVE BoardScore(_)
BoardScore(board) ==
  IF board = <<>> THEN 0 ELSE MergeCost(Head(board)) + BoardScore(Tail(board))

BoardLevels(board) == {board[i] : i \in DOMAIN board}

\* The states above, for the boards, the stored items and the clock given.
InitFrom(boards, items, t) ==
  \E board \in boards, item \in items :
  \E p1 \in Pull(NewBag, SessionDeck) :
  \E p2 \in Pull(p1.bag, SessionDeck) :
    /\ score = BoardScore(board)
    /\ hiScore = (IF Greater(score, LoadHiScore(item)) THEN score
                  ELSE LoadHiScore(item))
    /\ discoveredLevels = {l \in Levels : \E m \in BoardLevels(board) : l <= m}
    /\ localStorage =
         [hiScore |-> IF Greater(score, LoadHiScore(item)) THEN NumberToString(score)
                      ELSE item,
          discoveredLevels |-> discoveredLevels]
    /\ nextLevel = p1.val
    /\ currentLevel = p2.val
    /\ planetBag = p2.bag
    /\ dropX = BoardWidth \div 2
    /\ isCoolingDown = FALSE
    /\ isGameOver = FALSE
    /\ deadLineViolatedStartTime = Null
    /\ mergeLockedBodies = {}
    /\ world = DOMAIN board
    /\ bodies = [i \in DOMAIN board |-> [level |-> board[i], pos |-> PhysicsOwned]]
    /\ timers = <<>>
    /\ now = t
    /\ phase = "idle"
    /\ stepLog = <<>>
    /\ violation = FALSE
    /\ notified = [l \in Levels |-> IF l \in discoveredLevels THEN 1 ELSE 0]
    /\ dropCount = IF board = <<>> THEN 0 ELSE MaxDrops
    /\ lastDropTime = Null
    /\ pulled = PulledAfter(p1.bag, PulledAfter(NewBag, NonePulled, p1.val), p2.val)
    /\ pullLog = <<p1.val, p2.val>>
    /\ dropLog = <<>>

Init == InitFrom(InitBoards, ValidItems, TickMs)

(***************************************************************************)
(* Handlers.                                                               *)
(***************************************************************************)
\* Events.on(engine, 'collisionStart', ...): the whole pair list of one step.
CollisionStart(pairs, posOf) ==
  /\ phase = "idle"
  /\ SetCore(ProcessPairs([Core EXCEPT !.bodies = Integrate(@), !.log = <<>>],
                          pairs, posOf))
  /\ phase' = "inStep"
  /\ UNCHANGED <<pieceVars, dropX, isCoolingDown, isGameOver,
                 deadLineViolatedStartTime, timers, now, violation>>

\* setGameOver(value)
setGameOver(value) == value

\* checkDeadline with >= in place of >.
checkDeadlineAtThreshold(over, start, lastViolation, w, bs, posOf, t) ==
  IF over THEN [over |-> over, start |-> start, violation |-> lastViolation]
  ELSE IF AnyViolation(w, bs, posOf)
  THEN IF Falsy(start)
       THEN [over |-> over, start |-> t, violation |-> TRUE]
       ELSE IF t - start >= DEADLINE_THRESHOLD_MS
       THEN [over |-> setGameOver(TRUE), start |-> start, violation |-> TRUE]
       ELSE [over |-> over, start |-> start, violation |-> TRUE]
  ELSE [over |-> over, start |-> Null, violation |-> FALSE]

\* checkDeadline(): [over, start, violation] after the call.
checkDeadline(over, start, lastViolation, w, bs, posOf, t) ==
  IF over THEN [over |-> over, start |-> start, violation |-> lastViolation]
  ELSE IF AnyViolation(w, bs, posOf)
  THEN IF Falsy(start)
       THEN [over |-> over, start |-> t, violation |-> TRUE]
       ELSE IF t - start > DEADLINE_THRESHOLD_MS
       THEN [over |-> setGameOver(TRUE), start |-> start, violation |-> TRUE]
       ELSE [over |-> over, start |-> start, violation |-> TRUE]
  ELSE [over |-> over, start |-> Null, violation |-> FALSE]

\* The bodies as the afterUpdate handler finds them: integrated by this update
\* unless collisionStart already ran in it.
BodiesAtStepEnd == IF phase = "idle" THEN Integrate(bodies) ELSE bodies

\* afterUpdate that does not clear the locks.
AfterUpdateKeepsLocks(posOf) ==
  LET r == checkDeadline(isGameOver, deadLineViolatedStartTime, violation,
                         world, BodiesAtStepEnd, posOf, now)
  IN /\ isGameOver' = r.over
     /\ deadLineViolatedStartTime' = r.start
     /\ violation' = r.violation
     /\ bodies' = [i \in world |-> BodiesAtStepEnd[i]]
     /\ stepLog' = <<>>
     /\ phase' = "idle"
     /\ UNCHANGED <<score, hiScore, discoveredLevels, world, localStorage,
                    notified, pieceVars, dropX, isCoolingDown, timers, now,
                    mergeLockedBodies>>

\* Events.on(engine, 'afterUpdate', ...): clear the locks, check the deadline.
AfterUpdate(posOf) ==
  LET r == checkDeadline(isGameOver, deadLineViolatedStartTime, violation,
                         world, BodiesAtStepEnd, posOf, now)
  IN /\ mergeLockedBodies' = {}
     /\ isGameOver' = r.over
     /\ deadLineViolatedStartTime' = r.start
     /\ violation' = r.violation
     /\ bodies' = [i \in world |-> BodiesAtStepEnd[i]]
     /\ stepLog' = <<>>
     /\ phase' = "idle"
     /\ UNCHANGED <<score, hiScore, discoveredLevels, world, localStorage,
                    notified, pieceVars, dropX, isCoolingDown, timers, now>>

\* updateDropX without the clamp.
updateDropXNoClamp(x) == x

\* updateDropX(x)
updateDropX(x) == Clamp(currentLevel, x)

\* resetGame that leaves the pieces on the board.
resetGameKeepsBoard ==
  \E p1 \in Pull(BagReset(planetBag), SessionDeck) :
  \E p2 \in Pull(p1.bag, SessionDeck) :
    /\ score' = 0
    /\ deadLineViolatedStartTime' = Null
    /\ isGameOver' = setGameOver(FALSE)
    /\ nextLevel' = p1.val
    /\ currentLevel' = p2.val
    /\ planetBag' = p2.bag
    /\ pulled' = PulledAfter(p1.bag, PulledAfter(BagReset(planetBag), NonePulled,
                                                  p1.val), p2.val)
    /\ pullLog' = <<p1.val, p2.val>>
    /\ dropLog' = <<>>
    /\ discoveredLevels' = {}
    /\ localStorage' = [localStorage EXCEPT !.discoveredLevels = {}]
    /\ notified' = [l \in Levels |-> 0]
    /\ UNCHANGED <<world, bodies, hiScore, dropCount, lastDropTime, dropX,
                   isCoolingDown, mergeLockedBodies, timers, now, phase, stepLog,
                   violation>>

\* resetGame()
resetGame ==
  \E p1 \in Pull(BagReset(planetBag), SessionDeck) :
  \E p2 \in Pull(p1.bag, SessionDeck) :
    /\ world' = {}
    /\ bodies' = [i \in {} |-> PhysicsOwned]
    /\ score' = 0
    /\ deadLineViolatedStartTime' = Null
    /\ isGameOver' = setGameOver(FALSE)
    /\ nextLevel' = p1.val
    /\ currentLevel' = p2.val
    /\ planetBag' = p2.bag
    /\ pulled' = PulledAfter(p1.bag, PulledAfter(BagReset(planetBag), NonePulled,
                                                  p1.val), p2.val)
    /\ pullLog' = <<p1.val, p2.val>>
    /\ dropLog' = <<>>
    /\ discoveredLevels' = {}
    /\ localStorage' = [localStorage EXCEPT !.discoveredLevels = {}]
    /\ notified' = [l \in Levels |-> 0]
    /\ UNCHANGED <<hiScore, dropCount, lastDropTime, dropX, isCoolingDown,
                   mergeLockedBodies, timers, now, phase, stepLog, violation>>

\* pointerdown that resets whether or not the game is over.
PointerDownAlwaysResets(x) == phase = "idle" /\ resetGame

\* container 'pointerdown'
PointerDown(x) ==
  /\ phase = "idle"
  /\ IF isGameOver
     THEN resetGame
     ELSE /\ dropX' = updateDropX(x)
          /\ UNCHANGED <<coreVars, pieceVars, isCoolingDown, isGameOver,
                         deadLineViolatedStartTime, timers, now, phase, violation>>

\* container 'pointermove'
PointerMove(x) ==
  /\ phase = "idle"
  /\ dropX' = (IF isGameOver THEN dropX ELSE updateDropX(x))
  /\ UNCHANGED <<coreVars, pieceVars, isCoolingDown, isGameOver,
                 deadLineViolatedStartTime, timers, now, phase, violation>>

\* dropPlanet that creates the piece with the level of the next piece.
dropPlanetSpawnsNext(x) ==
  \E p \in Pull(planetBag, SessionDeck) :
    LET n == FreshId(DOMAIN bodies)
        found == Discover(Core, currentLevel)
    IN /\ SetCore([found EXCEPT
                     !.world = @ \cup {n},
                     !.bodies = [i \in DOMAIN @ \cup {n} |->
                                   IF i = n
                                   THEN [level |-> nextLevel,
                                         pos |-> [x |-> x, y |-> SpawnY]]
                                   ELSE @[i]]])
       /\ currentLevel' = nextLevel
       /\ nextLevel' = p.val
       /\ planetBag' = p.bag
       /\ isCoolingDown' = TRUE
       /\ timers' = Append(timers, now + DROP_COOLDOWN_MS)
       /\ dropCount' = dropCount + 1
       /\ lastDropTime' = now
       /\ pulled' = PulledAfter(planetBag, pulled, p.val)
       /\ pullLog' = Append(pullLog, p.val)
       /\ dropLog' = Append(dropLog, nextLevel)

\* dropPlanet(), called with dropX already clamped to x.
dropPlanet(x) ==
  \E p \in Pull(planetBag, SessionDeck) :
    LET n == FreshId(DOMAIN bodies)
        found == Discover(Core, currentLevel)
    IN /\ SetCore([found EXCEPT
                     !.world = @ \cup {n},
                     !.bodies = [i \in DOMAIN @ \cup {n} |->
                                   IF i = n
                                   THEN [level |-> currentLevel,
                                         pos |-> [x |-> x, y |-> SpawnY]]
                                   ELSE @[i]]])
       /\ currentLevel' = nextLevel
       /\ nextLevel' = p.val
       /\ planetBag' = p.bag
       /\ isCoolingDown' = TRUE
       /\ timers' = Append(timers, now + DROP_COOLDOWN_MS)
       /\ dropCount' = dropCount + 1
       /\ lastDropTime' = now
       /\ pulled' = PulledAfter(planetBag, pulled, p.val)
       /\ pullLog' = Append(pullLog, p.val)
       /\ dropLog' = Append(dropLog, currentLevel)

\* pointerup that tests isGameOver only.
PointerUpIgnoresCooldown(x) ==
  /\ phase = "idle"
  /\ dropCount < MaxDrops
  /\ Cardinality(world) < MaxBodies
  /\ IF isGameOver
     THEN UNCHANGED vars
     ELSE /\ dropX' = updateDropX(x)
          /\ dropPlanet(updateDropX(x))
          /\ UNCHANGED <<isGameOver, deadLineViolatedStartTime, now, phase,
                         violation>>

\* container 'pointerup'
PointerUp(x) ==
  /\ phase = "idle"
  /\ dropCount < MaxDrops
  /\ Cardinality(world) < MaxBodies
  /\ IF isGameOver \/ isCoolingDown
     THEN UNCHANGED vars
     ELSE /\ dropX' = updateDropX(x)
          /\ dropPlanet(updateDropX(x))
          /\ UNCHANGED <<isGameOver, deadLineViolatedStartTime, now, phase,
                         violation>>

\* window 'resize': handleResize() rebuilds the walls and clamps dropX again.
\* The model keeps the container at its size.
handleResize ==
  /\ phase = "idle"
  /\ dropX' = updateDropX(dropX)
  /\ UNCHANGED <<coreVars, pieceVars, isCoolingDown, isGameOver,
                 deadLineViolatedStartTime, timers, now, phase, violation>>

\* A timeout whose callback leaves the flag set.
CooldownTimeoutNoClear ==
  /\ phase = "idle"
  /\ timers # <<>>
  /\ Head(timers) <= now
  /\ timers' = Tail(timers)
  /\ UNCHANGED <<coreVars, pieceVars, dropX, isCoolingDown, isGameOver,
                 deadLineViolatedStartTime, now, phase, violation>>

\* A timeout that runs its callback before it is due.
CooldownTimeoutEarly ==
  /\ phase = "idle"
  /\ timers # <<>>
  /\ isCoolingDown' = FALSE
  /\ timers' = Tail(timers)
  /\ UNCHANGED <<coreVars, pieceVars, dropX, isGameOver,
                 deadLineViolatedStartTime, now, phase, violation>>

\* setTimeout(() => isCoolingDown = false, DROP_COOLDOWN_MS) comes due.
CooldownTimeout ==
  /\ phase = "idle"
  /\ timers # <<>>
  /\ Head(timers) <= now
  /\ isCoolingDown' = FALSE
  /\ timers' = Tail(timers)
  /\ UNCHANGED <<coreVars, pieceVars, dropX, isGameOver,
                 deadLineViolatedStartTime, now, phase, violation>>

\* Time passes between two callbacks.  The program reads the clock only while
\* a cooldown or a deadline grace period runs; the model lets it advance then.
Tick ==
  /\ phase = "idle"
  /\ timers # <<>> \/ deadLineViolatedStartTime # Null
  /\ now + TickMs <= MaxTicks * TickMs
  /\ now' = now + TickMs
  /\ UNCHANGED <<coreVars, pieceVars, dropX, isCoolingDown, isGameOver,
                 deadLineViolatedStartTime, timers, phase, violation>>

Next ==
  \/ \E pairs \in PairLists(world) :
       \E posOf \in [ReadIds(pairs, bodies) -> Positions] : CollisionStart(pairs, posOf)
  \/ \E posOf \in [world -> Positions] : AfterUpdate(posOf)
  \/ \E x \in XInputs : PointerDown(x)
  \/ \E x \in XInputs : PointerMove(x)
  \/ \E x \in XInputs : PointerUp(x)
  \/ handleResize
  \/ CooldownTimeout
  \/ Tick

Spec == Init /\ [][Next]_vars

\* The program started on a store whose 'hiScore' item is missing or broken.
InitStore == InitFrom({<<>>}, BrokenItems, TickMs)

SpecStore == InitStore /\ [][Next]_vars

\* The program started at the time origin of performance.now().
InitOrigin == InitFrom({<<>>}, ValidItems, 0)

SpecOrigin == InitOrigin /\ [][Next]_vars

(***************************************************************************)
(* Progress.  The browser runs a timeout's callback once it is due and the *)
(* event loop is free, the clock advances, and Engine.update, once in its  *)
(* collision phase, runs on to afterUpdate.  The timeout and the clock are *)
(* held back while an update runs, so their fairness is strong.  The clock *)
(* does not stop at MaxTicks while a timeout is still to come due.         *)
(***************************************************************************)
InitLive == InitFrom({<<>>}, {NumberToString(0)}, TickMs)

\* Time passes beyond MaxTicks ticks, up to the timeout that is not yet due.
TickToTimeout ==
  /\ phase = "idle"
  /\ timers # <<>> /\ Head(timers) > now
  /\ now + TickMs > MaxTicks * TickMs
  /\ now' = now + TickMs
  /\ UNCHANGED <<coreVars, pieceVars, dropX, isCoolingDown, isGameOver,
                 deadLineViolatedStartTime, timers, phase, violation>>

NextLive == Next \/ TickToTimeout

SpecLive ==
  /\ InitLive /\ [][NextLive]_vars
  /\ SF_vars(CooldownTimeout)
  /\ SF_vars(Tick)
  /\ SF_vars(TickToTimeout)
  /\ WF_vars(\E posOf \in [world -> Positions] : AfterUpdate(posOf))

(***************************************************************************)
(* The older variant, src/src/main.ts.  It has no black hole (two pieces   *)
(* of level 11 do not merge), no reset() of the bag and no resize handler; *)
(* its discovery set starts as {1}, and its resetGame puts {1} back and    *)
(* leaves the bag and the current and next piece alone.  handleMerge,      *)
(* dropPlanet, checkDeadline, updateDropX and the pointermove and          *)
(* pointerup handlers read the same in both files.                         *)
(***************************************************************************)
\* main.ts: the body of pairs.forEach in the collisionStart handler.
ProcessPairMain(s, pair, posOf) ==
  LET a == pair[1]
      b == pair[2]
  IN IF a = Wall \/ b = Wall
     THEN s
     ELSE IF s.bodies[a].level = s.bodies[b].level /\ s.bodies[a].level < MaxLevel
     THEN IF Unlocked(s, a, b) THEN handleMerge(Lock(s, a, b), a, b, posOf) ELSE s
     ELSE s

RECURSIVE ProcessPairsMain(_, _, _)
ProcessPairsMain(s, pairs, posOf) ==
  IF pairs = <<>> THEN s
  ELSE ProcessPairsMain(ProcessPairMain(s, Head(pairs), posOf), Tail(pairs), posOf)

\* main.ts: Events.on(engine, 'collisionStart', ...)
CollisionStartMain(pairs, posOf) ==
  /\ phase = "idle"
  /\ SetCore(ProcessPairsMain([Core EXCEPT !.bodies = Integrate(@), !.log = <<>>],
                              pairs, posOf))
  /\ phase' = "inStep"
  /\ UNCHANGED <<pieceVars, dropX, isCoolingDown, isGameOver,
                 deadLineViolatedStartTime, timers, now, violation>>

\* main.ts: resetGame()
resetGameMain ==
  /\ world' = {}
  /\ bodies' = [i \in {} |-> PhysicsOwned]
  /\ score' = 0
  /\ isGameOver' = FALSE
  /\ deadLineViolatedStartTime' = Null
  /\ discoveredLevels' = {1}
  /\ localStorage' = [localStorage EXCEPT !.discoveredLevels = {1}]
  /\ notified' = [l \in Levels |-> 0]
  /\ pullLog' = <<>>
  /\ dropLog' = <<>>
  /\ UNCHANGED <<hiScore, currentLevel, nextLevel, planetBag, pulled, dropCount,
                 lastDropTime, dropX, isCoolingDown, mergeLockedBodies, timers,
                 now, phase, stepLog, violation>>

\* main.ts: container 'pointerdown'
PointerDownMain(x) ==
  /\ phase = "idle"
  /\ IF isGameOver
     THEN resetGameMain
     ELSE /\ dropX' = updateDropX(x)
          /\ UNCHANGED <<coreVars, pieceVars, isCoolingDown, isGameOver,
                         deadLineViolatedStartTime, timers, now, phase, violation>>

\* main.ts: the state init() leaves.
InitMain ==
  \E stored \in StoredHiScores :
  \E p1 \in Pull(NewBag, SessionDeck) :
  \E p2 \in Pull(p1.bag, SessionDeck) :
    /\ score = 0
    /\ hiScore = LoadHiScore(NumberToString(stored))
    /\ discoveredLevels = {1}
    /\ localStorage = [hiScore |-> NumberToString(stored), discoveredLevels |-> {}]
    /\ nextLevel = p1.val
    /\ currentLevel = p2.val
    /\ planetBag = p2.bag
    /\ dropX = BoardWidth \div 2
    /\ isCoolingDown = FALSE
    /\ isGameOver = FALSE
    /\ deadLineViolatedStartTime = Null
    /\ mergeLockedBodies = {}
    /\ world = {}
    /\ bodies = [i \in {} |-> PhysicsOwned]
    /\ timers = <<>>
    /\ now = TickMs
    /\ phase = "idle"
    /\ stepLog = <<>>
    /\ violation = FALSE
    /\ notified = [l \in Levels |-> 0]
    /\ dropCount = 0
    /\ lastDropTime = Null
    /\ pulled = PulledAfter(p1.bag, PulledAfter(NewBag, NonePulled, p1.val), p2.val)
    /\ pullLog = <<p1.val, p2.val>>
    /\ dropLog = <<>>

NextMain ==
  \/ \E pairs \in PairLists(world) :
       \E posOf \in [ReadIds(pairs, bodies) -> Positions] :
         CollisionStartMain(pairs, posOf)
  \/ \E posOf \in [world -> Positions] : AfterUpdate(posOf)
  \/ \E x \in XInputs : PointerDownMain(x)
  \/ \E x \in XInputs : PointerMove(x)
  \/ \E x \in XInputs : PointerUp(x)
  \/ CooldownTimeout
  \/ Tick

SpecMain == InitMain /\ [][NextMain]_vars

(***************************************************************************)
(* The PlanetBag on its own: the state the module's top level leaves       *)
(* before init runs, and every sequence of pull and reset calls from it,   *)
(* over every outcome of the shuffles.                                     *)
(***************************************************************************)
Loaded ==
  /\ score = 0
  /\ hiScore \in StoredHiScores
  /\ discoveredLevels = {}
  /\ localStorage = [hiScore |-> NumberToString(hiScore), discoveredLevels |-> {}]
  /\ currentLevel = 1
  /\ nextLevel = 1
  /\ planetBag = NewBag
  /\ dropX = 0
  /\ isCoolingDown = FALSE
  /\ isGameOver = FALSE
  /\ deadLineViolatedStartTime = Null
  /\ mergeLockedBodies = {}
  /\ world = {}
  /\ bodies = [i \in {} |-> PhysicsOwned]
  /\ timers = <<>>
  /\ now = 0
  /\ phase = "idle"
  /\ stepLog = <<>>
  /\ violation = FALSE
  /\ notified = [l \in Levels |-> 0]
  /\ dropCount = 0
  /\ lastDropTime = Null
  /\ pulled = NonePulled
  /\ pullLog = <<>>
  /\ dropLog = <<>>

bagFrame == <<score, hiScore, discoveredLevels, currentLevel, nextLevel, dropX,
              isCoolingDown, isGameOver, deadLineViolatedStartTime,
              mergeLockedBodies, world, bodies, localStorage, timers, now,
              phase, stepLog, violation, notified, dropCount, lastDropTime,
              pullLog, dropLog>>

\* planetBag.pull()
BagPull ==
  /\ \E p \in Pull(planetBag, AllCandidates) :
       /\ planetBag' = p.bag
       /\ pulled' = PulledAfter(planetBag, pulled, p.val)
  /\ UNCHANGED bagFrame

\* planetBag.reset()
BagResetCall ==
  /\ planetBag' = BagReset(planetBag)
  /\ pulled' = NonePulled
  /\ UNCHANGED bagFrame

NextBag == BagPull \/ BagResetCall

SpecBag == Loaded /\ [][NextBag]_vars

(***************************************************************************)
(* Properties.                                                             *)
(***************************************************************************)
\* A step of the collision handler: from idle into the step.
CollisionStep == phase = "idle" /\ phase' = "inStep"

\* A step that ended the game-over state.
ResetStep == isGameOver /\ ~isGameOver'

\* A step that drew from the bag without dropping a piece: resetGame's draws.
BagRedrawn == planetBag' # planetBag /\ dropCount' = dropCount

OnlyMerges(log) == \A k \in DOMAIN log : log[k].kind = "merge"

RECURSIVE MergePoints(_, _)
MergePoints(log, bs) ==
  IF log = <<>> THEN 0
  ELSE PlanetScore[bs[Head(log).a].level + 1] + MergePoints(Tail(log), bs)

\* C1: in one step each piece is consumed by at most one merge or mega-merge,
\* and a piece spawned by a merge of the step is not consumed in that step.
C1_ConsumedAtMostOnce ==
  \A i, j \in DOMAIN stepLog :
    i < j => /\ stepLog[i].consumed \cap stepLog[j].consumed = {}
             /\ stepLog[i].born \notin stepLog[j].consumed

\* C2: every merge of a step that holds merges only takes two live pieces of
\* one level L < 11 out of the world and puts one piece of level L+1 at the
\* midpoint of their positions; the score grows by scoreValue(L+1) for each
\* and the number of live pieces drops by one for each.
C2_MergeEffect ==
  [][(CollisionStep /\ stepLog' # <<>> /\ OnlyMerges(stepLog')) =>
       /\ \A k \in DOMAIN stepLog' :
            LET e == stepLog'[k]
                L == bodies[e.a].level
            IN /\ e.live /\ {e.a, e.b} \subseteq world /\ e.a # e.b
               /\ L < MaxLevel /\ bodies[e.b].level = L
               /\ e.born \notin world /\ e.born \in world'
               /\ bodies'[e.born].level = L + 1
               /\ 2 * bodies'[e.born].pos.x = e.posA.x + e.posB.x
               /\ 2 * bodies'[e.born].pos.y = e.posA.y + e.posB.y
       /\ world' = (world \ UNION {stepLog'[k].consumed : k \in DOMAIN stepLog'})
                     \cup {stepLog'[k].born : k \in DOMAIN stepLog'}
       /\ Cardinality(world') = Cardinality(world) - Len(stepLog')
       /\ score' = score + MergePoints(stepLog', bodies)]_vars

\* C2's case: a merge of two pieces at different positions has happened.
C2_Witness ==
  /\ phase = "inStep" /\ Len(stepLog) = 1
  /\ stepLog[1].kind = "merge" /\ stepLog[1].posA # stepLog[1].posB

\* C3: a step whose last acting pair is a mega-merge leaves no live piece, and
\* a step whose only acting pair is a mega-merge of two live level-11 pieces
\* adds the bonus 5000 to the score and nothing else.
C3_MegaMergeEffect ==
  [][(CollisionStep /\ stepLog' # <<>>
        /\ stepLog'[Len(stepLog')].kind = "blackhole") =>
       /\ world' = {}
       /\ Len(stepLog') = 1 =>
            /\ stepLog'[1].consumed = world
            /\ bodies[stepLog'[1].a].level = MaxLevel
            /\ bodies[stepLog'[1].b].level = MaxLevel
            /\ score' = score + BLACK_HOLE_BONUS]_vars

\* C3's case: a mega-merge has cleared a board that held other pieces too.
C3_Witness ==
  /\ phase = "inStep" /\ Len(stepLog) = 1 /\ stepLog[1].kind = "blackhole"
  /\ Cardinality(stepLog[1].consumed) > 2 /\ world = {}

\* C4: a pair with a body that an earlier pair of the step removed from the
\* world is a no-op: it spawns nothing and scores nothing.
C4_DeadPairIsNoOp ==
  \A k \in DOMAIN stepLog :
    ~stepLog[k].live => stepLog[k].born = 0 /\ stepLog[k].gain = 0

\* C5: no two consecutive pulls return the same level.
C5_NoConsecutiveRepeat ==
  [][(planetBag' # planetBag /\ planetBag'.lastItem # Null) =>
       planetBag'.lastItem # planetBag.lastItem]_vars

\* C6: while the session is not over, the deadline check ends it only on a
\* violating step more than 1500 ms after the recorded start (not at 1500 ms),
\* it does end it on such a step, and a check that finds no violating piece
\* sets the start to none.
C6_DeadlineRule ==
  [][/\ (~isGameOver /\ isGameOver') =>
          /\ violation'
          /\ deadLineViolatedStartTime # Null
          /\ now - deadLineViolatedStartTime > DEADLINE_THRESHOLD_MS
     /\ \A posOf \in [world -> Positions] :
          (AfterUpdate(posOf) /\ ~isGameOver) =>
            IF AnyViolation(world, BodiesAtStepEnd, posOf)
            THEN /\ (deadLineViolatedStartTime # Null
                       /\ now - deadLineViolatedStartTime > DEADLINE_THRESHOLD_MS)
                      => isGameOver'
                 /\ (deadLineViolatedStartTime # Null
                       /\ now - deadLineViolatedStartTime <= DEADLINE_THRESHOLD_MS)
                      => (~isGameOver'
                            /\ deadLineViolatedStartTime' = deadLineViolatedStartTime)
                 /\ deadLineViolatedStartTime = Null
                      => (~isGameOver' /\ deadLineViolatedStartTime' = now)
            ELSE deadLineViolatedStartTime' = Null /\ ~isGameOver']_vars

\* C6's case: the session has ended on a violation longer than the threshold.
C6_Witness ==
  /\ isGameOver /\ violation
  /\ now - deadLineViolatedStartTime > DEADLINE_THRESHOLD_MS

\* C7: hiScore >= score in every reachable state.
C7_HiScoreAtLeastScore == hiScore >= score

\* C7's case: points were scored below a high score that a reset kept or the
\* store held.
C7_Witness == score > 0 /\ hiScore > score

\* C8: no step lowers hiScore.
C8_HiScoreMonotone == [][hiScore' >= hiScore]_vars

\* C8's case: a session that raised hiScore has been reset.
C8_Witness == score = 0 /\ hiScore \notin StoredHiScores /\ ~isGameOver

\* C9: except in a reset the discovery set only grows, and a discovery
\* notification is sent exactly for a level that enters the set, with the set
\* written to the store; so no level is notified twice in a session.
C9_DiscoveryOnce ==
  [][ResetStep \/
       /\ discoveredLevels \subseteq discoveredLevels'
       /\ \A l \in Levels :
            /\ notified'[l] <= 1
            /\ notified'[l] >= notified[l]
            /\ notified'[l] > notified[l] <=>
                 (l \notin discoveredLevels /\ l \in discoveredLevels')
            /\ notified'[l] > notified[l] =>
                 localStorage'.discoveredLevels = discoveredLevels']_vars

\* C9's case: a level already discovered has been dropped again.
C9_Witness ==
  \E i, j \in world :
    /\ i # j /\ bodies[i].level = bodies[j].level
    /\ bodies[i].pos.y = SpawnY /\ notified[bodies[i].level] = 1

\* C10: a step that ends the game-over state, or that redraws the current and
\* next piece, is resetGame run by a pointerdown received while the game is over.
C10_GameOverTerminal ==
  [][(ResetStep \/ BagRedrawn) =>
       (isGameOver /\ resetGame /\ \E x \in XInputs : PointerDown(x))]_vars

\* C10's case: the game is over and the collision handler has still run.
C10_Witness == isGameOver /\ phase = "inStep" /\ stepLog # <<>>

\* A step that dropped a piece.
DropStep == dropCount' # dropCount

\* C11: the reset of a session that is over leaves score 0, an empty discovery
\* set, isGameOver false, no live piece, no recorded deadline start, and
\* hiScore as it was.
C11_ResetEffect ==
  [][ResetStep =>
       /\ score' = 0
       /\ discoveredLevels' = {}
       /\ ~isGameOver'
       /\ world' = {}
       /\ deadLineViolatedStartTime' = Null
       /\ hiScore' = hiScore]_vars

\* C11's case: a session that had raised hiScore has been reset.
C11_Witness ==
  /\ ~isGameOver /\ score = 0 /\ world = {} /\ discoveredLevels = {}
  /\ deadLineViolatedStartTime = Null /\ hiScore > 0 /\ hiScore \notin StoredHiScores

\* C12: the reset of a session that is over resets the bag (lastItem none, the
\* full weighted multiset whatever was left) and then pulls the next and the
\* current piece from it, so the bag is two entries short of full afterwards.
C12_ResetRedraws ==
  [][ResetStep =>
       /\ \E p1 \in Pull(BagReset(planetBag), SessionDeck) :
          \E p2 \in Pull(p1.bag, SessionDeck) :
            nextLevel' = p1.val /\ currentLevel' = p2.val /\ planetBag' = p2.bag
       /\ BagLength(planetBag') = SumTo(NEXT_WEIGHTS, MaxLevel) - 2
       /\ planetBag'.lastItem = currentLevel']_vars

\* C13: a pointerup received while the game is over or the cooldown runs spawns
\* no piece and leaves currentLevel, nextLevel, the bag, the discovery set, the
\* score and the cooldown flag as they were; no piece is dropped in such a state.
C13_CommitIgnored ==
  [][(isGameOver \/ isCoolingDown) =>
       /\ ~DropStep
       /\ (\E x \in XInputs : PointerUp(x)) =>
            UNCHANGED <<world, bodies, currentLevel, nextLevel, planetBag,
                        discoveredLevels, score, isCoolingDown>>]_vars

\* C13's case: the game is over, the cooldown of the last drop still runs, and
\* a pointerup can arrive.
C13_Witness ==
  /\ isGameOver /\ isCoolingDown /\ phase = "idle"
  /\ dropCount < MaxDrops /\ Cardinality(world) < MaxBodies

\* C14: a drop happens in Playing only; it adds exactly one piece, of the level
\* that was current, at (dropX, 50) with dropX clamped for that level, makes the
\* next level current, pulls the new next level from the bag, adds the dropped
\* level to the discovery set, starts the cooldown, and leaves score and
\* hiScore alone.
C14_CommitEffect ==
  [][DropStep =>
       /\ ~isGameOver /\ ~isCoolingDown
       /\ \E n \in world' \ world :
            /\ world' = world \cup {n}
            /\ bodies'[n] = [level |-> currentLevel,
                             pos |-> [x |-> dropX', y |-> SpawnY]]
       /\ \A i \in world : bodies'[i] = bodies[i]
       /\ dropX' = Clamp(currentLevel, dropX')
       /\ currentLevel' = nextLevel
       /\ \E p \in Pull(planetBag, SessionDeck) :
            nextLevel' = p.val /\ planetBag' = p.bag
       /\ discoveredLevels' = discoveredLevels \cup {currentLevel}
       /\ isCoolingDown'
       /\ score' = score /\ hiScore' = hiScore]_vars

\* C14's case: a piece has been dropped and its level differs from the level
\* that became current.
C14_Witness ==
  /\ isCoolingDown /\ lastDropTime = now
  /\ \E i \in world : /\ bodies[i].pos.y = SpawnY
                       /\ bodies[i].level # currentLevel
                       /\ bodies[i].level \in discoveredLevels

\* C15: a piece is dropped only when no cooldown timeout is pending and at
\* least DROP_COOLDOWN_MS after the previous drop, and at most one cooldown
\* timeout is pending at any time.
C15_DropsRateLimited ==
  [][/\ Len(timers') <= 1
     /\ DropStep =>
          /\ timers = <<>>
          /\ lastDropTime # Null => now - lastDropTime >= DROP_COOLDOWN_MS]_vars

\* C15's case: a second piece has been dropped, after the first one's cooldown.
C15_Witness == dropCount >= 2 /\ lastDropTime > TickMs /\ Len(timers) = 1

\* What a step's pair list leaves, as far as the order of the pairs could
\* show: the live pieces counted by level, the points gained, and the merges
\* and mega-merges counted by kind and level.
StepOutcome(s0, pairs, posOf) ==
  LET s == ProcessPairs([s0 EXCEPT !.bodies = Integrate(@), !.log = <<>>],
                        pairs, posOf)
  IN [levels |-> [l \in Levels |->
                    Cardinality({i \in s.world : s.bodies[i].level = l})],
      gain |-> s.score - s0.score,
      events |-> [e \in {"merge", "blackhole"} \X Levels |->
                    Cardinality({k \in DOMAIN s.log :
                                   /\ s.log[k].kind = e[1]
                                   /\ s0.bodies[s.log[k].a].level = e[2]})]]

\* The orders a pair list can be delivered in.
Orders(pairs) ==
  {[i \in DOMAIN pairs |-> pairs[f[i]]] : f \in Permutations(DOMAIN pairs)}

\* C16: whatever the board, every order of a step's pair list leaves the same
\* live pieces by level, the same score gain and the same merge events.
C16_OrderIndependent ==
  phase = "idle" =>
    \A pairs \in PairLists(world) :
      \A posOf \in [ReadIds(pairs, bodies) -> Positions] :
        \A q \in Orders(pairs) :
          StepOutcome(Core, q, posOf) = StepOutcome(Core, pairs, posOf)

\* C17: the lock set is empty whenever a step's pair processing can start,
\* that is, between two engine updates: afterUpdate has cleared what the step
\* before added.
C17_LocksClearedEachStep == phase = "idle" => mergeLockedBodies = {}

\* C17's case: a step that merged two pieces has ended (the piece it spawned
\* still has the position it was created with).
C17_Witness ==
  /\ phase = "idle" /\ mergeLockedBodies = {}
  /\ \E i \in world : bodies[i].pos # PhysicsOwned /\ bodies[i].pos.y # SpawnY

\* C18: while the game is over and stays over, score, hiScore, the live pieces
\* and the discovery set do not change.
C18_GameOverFrozen ==
  [][(isGameOver /\ isGameOver') =>
       UNCHANGED <<score, hiScore, world, discoveredLevels>>]_vars

\* C19: the reset of a session that is over leaves no cooldown running, so the
\* next pointerup is accepted; checked for the resets that find no timeout
\* overdue (a pending timeout is one a drop armed less than DROP_COOLDOWN_MS
\* before).
C19_ResetLeavesPlaying ==
  [][(ResetStep /\ (timers = <<>> \/ Head(timers) > now)) => ~isCoolingDown']_vars

\* C20: after a drop and after a reset, dropX lies within the clamp range of
\* the level that has become current.
C20_DropXReclamped ==
  [][(DropStep \/ ResetStep) => dropX' = Clamp(currentLevel', dropX')]_vars

\* C21: every pull returns a candidate level (1..5); between two refills no
\* level is returned more often than its weight, the pulls made and the
\* entries left add up to the full bag, and so the 24 pulls that follow a
\* refill return each level exactly as often as its weight (6, 6, 5, 4, 3).
C21_BagCycle ==
  /\ planetBag.lastItem \in AllCandidates \cup {Null}
  /\ \A l \in Levels : pulled[l] <= NEXT_WEIGHTS[l]
  /\ SumTo(pulled, MaxLevel) + BagLength(planetBag) = SumTo(NEXT_WEIGHTS, MaxLevel)
  /\ SumTo(pulled, MaxLevel) = SumTo(NEXT_WEIGHTS, MaxLevel) => pulled = NEXT_WEIGHTS

\* C21's case: 24 pulls have emptied a refilled bag.
C21_Witness ==
  /\ SumTo(pulled, MaxLevel) = SumTo(NEXT_WEIGHTS, MaxLevel)
  /\ BagLength(planetBag) = 0 /\ pulled[5] = 3

\* C22: started on a store whose hiScore item is missing or is no integer,
\* hiScore is the default 0 until points are scored and hiScore >= score holds
\* throughout.
C22_BrokenStoreDefaults ==
  /\ hiScore # NaN
  /\ dropCount = 0 => hiScore = 0
  /\ hiScore >= score

\* C23: a step that changes hiScore leaves the stored hiScore equal to it (as
\* written by toString and as parseInt reads it back), and a step that changes
\* the discovery set leaves the stored discoveredLevels equal to it.
C23_WrittenOnChange ==
  [][/\ hiScore' # hiScore =>
          /\ localStorage'.hiScore = NumberToString(hiScore')
          /\ ParseInt(localStorage'.hiScore) = hiScore'
     /\ discoveredLevels' # discoveredLevels =>
          localStorage'.discoveredLevels = discoveredLevels']_vars

\* C23's case: a merge has raised hiScore and discovered a level.
C23_Witness ==
  /\ phase = "inStep" /\ Len(stepLog) = 1 /\ stepLog[1].kind = "merge"
  /\ stepLog[1].gain > 0 /\ hiScore = score
  /\ notified[bodies[stepLog[1].born].level] = 1
  /\ dropCount > 0

\* C24: every body has a level in 1..11, currentLevel and nextLevel are in
\* 1..5, and a pair of two level-11 pieces the handler acted on was a
\* mega-merge, which spawns no piece.
C24_LevelsInRange ==
  /\ \A i \in DOMAIN bodies : bodies[i].level \in 1..11
  /\ currentLevel \in 1..5 /\ nextLevel \in 1..5
  /\ \A k \in DOMAIN stepLog :
       bodies[stepLog[k].a].level = 11 =>
         stepLog[k].kind = "blackhole" /\ stepLog[k].born = 0

\* C24's case: a merge of two level-10 pieces has spawned a level-11 piece
\* next to another one.
C24_Witness ==
  /\ phase = "inStep"
  /\ \E k \in DOMAIN stepLog :
       /\ stepLog[k].kind = "merge"
       /\ bodies[stepLog[k].born].level = 11
       /\ \E i \in world \ {stepLog[k].born} : bodies[i].level = 11

\* The levels of the body objects.
LevelsOf(bs) == [i \in DOMAIN bs |-> bs[i].level]

\* A pair with a static body, or of two pieces of different levels.
NoMatch(pair, bs) == pair[1] = Wall \/ pair[2] = Wall \/ bs[pair[1]].level # bs[pair[2]].level

\* C25: the handler leaves the whole state as it is for a pair with a static
\* body and for a pair of two pieces of different levels, in every state a
\* step can start from; and a step in which it acted on no pair leaves the
\* live pieces, the levels, score, hiScore, the discovery set and the lock
\* set unchanged.
C25_NoMatchNoAction ==
  [][CollisionStep =>
       /\ \A a, b \in DOMAIN bodies \cup {Wall} :
            a # b /\ NoMatch(<<a, b>>, bodies) =>
              ProcessPair(Core, <<a, b>>, <<>>) = Core
       /\ stepLog' = <<>> =>
            /\ LevelsOf(bodies') = LevelsOf(bodies)
            /\ UNCHANGED <<world, score, hiScore, discoveredLevels,
                           mergeLockedBodies>>]_vars

\* C25's case: a step whose pairs were all of a wall or of pieces of
\* different levels has run.
C25_Witness ==
  /\ phase = "inStep" /\ stepLog = <<>> /\ Cardinality(world) >= 2
  /\ \A i, j \in world : i # j => bodies[i].level # bodies[j].level

\* C27: the level of every live piece is in the discovery set.
C27_LivePiecesDiscovered ==
  \A i \in world : bodies[i].level \in discoveredLevels

\* C27's case: in a session that began with an empty discovery set, dropped
\* pieces have merged into a piece of a level that was never dropped.
C27_Witness ==
  /\ dropLog # <<>>
  /\ \E i \in world : bodies[i].level \notin BoardLevels(dropLog)

\* C28 as stated: the k-th piece dropped after init or reset has the level of
\* the k-th pull made since.
C28_DropsInPullOrder ==
  \A k \in DOMAIN dropLog : dropLog[k] = pullLog[k]

\* The pull that drew the k-th dropped piece: init and resetGame pull the
\* next piece first and the current piece second.
PullOfDrop(k) == IF k = 1 THEN 2 ELSE IF k = 2 THEN 1 ELSE k

\* C28: two pulls are ahead of the drops; the first piece dropped after init
\* or reset has the level of the second pull, the second piece that of the
\* first pull, and the k-th piece, k >= 3, that of the k-th pull.
C28_DropsFollowPulls ==
  /\ Len(pullLog) = Len(dropLog) + 2
  /\ \A k \in DOMAIN dropLog : dropLog[k] = pullLog[PullOfDrop(k)]

\* C28's case: three pieces dropped, the first two of different levels.
C28_Witness == Len(dropLog) = 3 /\ dropLog[1] # dropLog[2]

\* C30: a piece a drop has created and the engine has not moved yet is at an
\* x within [radius + 5, boardWidth - radius - 5] for the radius of its level.
C30_SpawnXClamped ==
  \A i \in DOMAIN bodies :
    bodies[i].pos.y = SpawnY =>
      /\ bodies[i].pos.x >= PlanetRadius[bodies[i].level] + 5
      /\ bodies[i].pos.x <= BoardWidth - PlanetRadius[bodies[i].level] - 5

\* C30's case: a piece dropped at the right edge while dropX was clamped for
\* the smaller piece before it.
C30_Witness ==
  /\ Len(dropLog) >= 2 /\ PlanetRadius[dropLog[Len(dropLog)]] >
                            PlanetRadius[dropLog[Len(dropLog) - 1]]
  /\ \E i \in DOMAIN bodies :
       /\ bodies[i].pos.y = SpawnY /\ bodies[i].level = dropLog[Len(dropLog)]
       /\ bodies[i].pos.x = BoardWidth - PlanetRadius[bodies[i].level] - 5

\* C26: when the timeout, the clock and the engine's update make progress,
\* every state with the cooldown active is followed by one with it inactive.
C26_CooldownEnds == isCoolingDown ~> ~isCoolingDown

\* C26's case: the cooldown of a drop has ended and the next drop is open.
C26_Witness ==
  /\ ~isCoolingDown /\ timers = <<>> /\ dropLog # <<>> /\ ~isGameOver
  /\ now >= lastDropTime + DROP_COOLDOWN_MS

=============================================================================
